---- MODULE Spec2Model ----
(***************************************************************************)
(* Model of the qk front-end: the REPL reads a line, lexes it (lexer.rs),  *)
(* parses the tokens by recursive descent (parser.rs) and lowers the AST   *)
(* into a de Bruijn term pool (pool_lambda.rs).                            *)
(*                                                                         *)
(* A source string is a sequence of bytes, each written as a string; the   *)
(* bytes above 0x7F are written by their value, as in "0xC3".              *)
(* Spans are records [offset, len] of byte offsets, as miette::SourceSpan. *)
(***************************************************************************)
EXTENDS Integers, Sequences, FiniteSets, TLC

\* Longest token sequence enumerated exhaustively as REPL input.
MaxToks == 5

(***************************************************************************)
(* Spans (lexer.rs)                                                        *)
(***************************************************************************)
SourceSpan(o, l) == [offset |-> o, len |-> l]

over(l, r) == SourceSpan(l.offset, r.offset + r.len - l.offset)

\* &src[at.offset()..at.offset() + at.len()]
Slice(src, at) == SubSeq(src, at.offset + 1, at.offset + at.len)

(***************************************************************************)
(* Lexer (lexer.rs): the logos rules of TkTy                               *)
(***************************************************************************)
Whitespace == {" ", "\t", "\n", "\f"}

Letters ==
  {"a", "b", "c", "d", "e", "f", "g", "h", "i", "j", "k", "l", "m",
   "n", "o", "p", "q", "r", "s", "t", "u", "v", "w", "x", "y", "z",
   "A", "B", "C", "D", "E", "F", "G", "H", "I", "J", "K", "L", "M",
   "N", "O", "P", "Q", "R", "S", "T", "U", "V", "W", "X", "Y", "Z"}

RECURSIVE LetterRun(_, _)
\* Length of the run of ASCII letters of s starting at position i (1-based).
LetterRun(s, i) ==
  IF i <= Len(s) /\ s[i] \in Letters THEN 1 + LetterRun(s, i + 1) ELSE 0

\* IsSkipped for a skip rule that knows the space alone.
IsSkipped_SpaceOnly(c) == c = " "

\* #[logos(skip r"[ \t\n\f]+")]
IsSkipped(c) == c \in Whitespace

\* The bytes pat stand in s at position i.
StartsWith(s, i, pat) ==
  /\ i + Len(pat) - 1 <= Len(s)
  /\ \A b \in 1..Len(pat) : s[i + b - 1] = pat[b]

\* The bytes of the second #[token] literal of TkTy::Function in lexer.rs.
LambdaSign == <<"0xC3", "0x8E", "0xC2", "0xBB">>

\* The longest match of the TkTy rules at position i: [item, len]; an item
\* "Error" stands for a byte no rule matches.
TkTyMatch(s, i) ==
  LET n == LetterRun(s, i)
  IN  IF n > 0
      THEN IF n = 2 /\ StartsWith(s, i, <<"f", "n">>)
           THEN [item |-> "Function", len |-> 2]
           ELSE [item |-> "Variable", len |-> n]
      ELSE IF s[i] = "\\" THEN [item |-> "Function", len |-> 1]
      ELSE IF StartsWith(s, i, LambdaSign)
      THEN [item |-> "Function", len |-> Len(LambdaSign)]
      ELSE IF StartsWith(s, i, <<"=", ">">>)
      THEN [item |-> "Abstraction", len |-> 2]
      ELSE IF s[i] = "." THEN [item |-> "Abstraction", len |-> 1]
      ELSE IF s[i] = "(" THEN [item |-> "LParen", len |-> 1]
      ELSE IF s[i] = ")" THEN [item |-> "RParen", len |-> 1]
      ELSE [item |-> "Error", len |-> 1]

RECURSIVE LexFrom(_, _)
LexFrom(s, i) ==
  IF i > Len(s) THEN <<>>
  ELSE IF IsSkipped(s[i]) THEN LexFrom(s, i + 1)
  ELSE LET m  == TkTyMatch(s, i)
           at == SourceSpan(i - 1, m.len)
       IN  <<[ok |-> m.item # "Error", item |-> m.item, at |-> at]>>
             \o LexFrom(s, i + m.len)

\* TkTy::processed: the items of the lexer, Ok(Meta{item, at}) or
\* Err(InvalidCharSeq{at}), in source order.
processed(s) == LexFrom(s, 1)

Token(item, at) == [item |-> item, at |-> at]

(***************************************************************************)
(* AST (ast.rs)                                                            *)
(***************************************************************************)
NoNode == [item |-> "None"]

AstVar(at) == [item |-> "Var", at |-> at]
AstAbs(v, inner, at) == [item |-> "Abs", v |-> v, inner |-> inner, at |-> at]
AstApp(l, r, at) == [item |-> "App", l |-> l, r |-> r, at |-> at]

(***************************************************************************)
(* Parser (parser.rs).  A parser is the pair (tokens, idx); every method   *)
(* returns a record holding the cursor it leaves behind, also on failure:  *)
(* the methods advance self.idx in place and never restore it.             *)
(***************************************************************************)
NoErr == [kind |-> "None"]
UnexpectedEof(at) == [kind |-> "UnexpectedEof", at |-> at]
UnexpectedToken(exp, tk, at) ==
  [kind |-> "UnexpectedToken", exp |-> exp, tk |-> tk, at |-> at]

POk(node, idx) == [ok |-> TRUE, node |-> node, idx |-> idx, err |-> NoErr]
PErr(err, idx) == [ok |-> FALSE, node |-> NoNode, idx |-> idx, err |-> err]

\* EofSpan taking the first token of the vector instead of the last.
EofSpan_First(tokens) ==
  IF Len(tokens) > 0 THEN tokens[1].at ELSE SourceSpan(0, 0)

\* The `at` of the UnexpectedEof error peek builds.
EofSpan(tokens) ==
  IF Len(tokens) > 0 THEN tokens[Len(tokens)].at ELSE SourceSpan(0, 0)

\* Parser::peek: the token at idx + offset (idx is 0-based), or UnexpectedEof.
peek(tokens, idx, offset) ==
  IF idx + offset < Len(tokens)
  THEN [ok |-> TRUE, tk |-> tokens[idx + offset + 1], err |-> NoErr]
  ELSE [ok |-> FALSE, tk |-> Token("None", SourceSpan(0, 0)),
        err |-> UnexpectedEof(EofSpan(tokens))]

current(tokens, idx) == peek(tokens, idx, 0)

\* Parser::syntax: consume the token tk or fail; [ok, idx, err].
syntax(tokens, idx, tk) ==
  LET p == current(tokens, idx)
  IN  IF ~p.ok THEN [ok |-> FALSE, idx |-> idx, err |-> p.err]
      ELSE IF p.tk.item = tk THEN [ok |-> TRUE, idx |-> idx + 1, err |-> NoErr]
      ELSE [ok |-> FALSE, idx |-> idx,
            err |-> UnexpectedToken(tk, p.tk.item, p.tk.at)]

RECURSIVE Params(_, _)
\* The while loop of parse_abs: consume Variable tokens, collecting their
\* spans; fails with UnexpectedEof when the tokens end.  [ok, params, idx, err]
Params(tokens, idx) ==
  LET p == current(tokens, idx)
  IN  IF ~p.ok THEN [ok |-> FALSE, params |-> <<>>, idx |-> idx, err |-> p.err]
      ELSE IF p.tk.item = "Variable"
      THEN LET rest == Params(tokens, idx + 1)
           IN  [rest EXCEPT !.params = <<p.tk.at>> \o @]
      ELSE [ok |-> TRUE, params |-> <<>>, idx |-> idx, err |-> NoErr]

RECURSIVE WrapAbs_Forward(_, _)
\* WrapAbs without the rev(): the first parameter becomes the innermost Abs.
WrapAbs_Forward(params, body) ==
  IF params = <<>> THEN body
  ELSE WrapAbs_Forward(Tail(params),
                       AstAbs(Head(params), body, over(Head(params), body.at)))

RECURSIVE WrapAbs(_, _)
\* The for loop of parse_abs over params.into_iter().rev().
WrapAbs(params, body) ==
  IF params = <<>> THEN body
  ELSE LET result == WrapAbs(Tail(params), body)
           at == over(Head(params), result.at)
       IN  AstAbs(Head(params), result, at)

RECURSIVE parse_app(_, _), parse_atom(_, _), parse_abs(_, _), AppLoop(_, _, _)
RECURSIVE AppLoop_Swapped(_, _, _)

parse_abs(tokens, idx) ==
  LET fn == syntax(tokens, idx, "Function")
  IN  IF ~fn.ok THEN PErr(fn.err, fn.idx)
      ELSE
      LET ps == Params(tokens, fn.idx)
      IN  IF ~ps.ok THEN PErr(ps.err, ps.idx)
          ELSE
          LET need == IF ps.params = <<>>
                      THEN syntax(tokens, ps.idx, "Variable")
                      ELSE [ok |-> TRUE, idx |-> ps.idx, err |-> NoErr]
          IN  IF ~need.ok THEN PErr(need.err, need.idx)
              ELSE
              LET dot == syntax(tokens, need.idx, "Abstraction")
              IN  IF ~dot.ok THEN PErr(dot.err, dot.idx)
                  ELSE
                  LET body == parse_app(tokens, dot.idx)
                  IN  IF ~body.ok THEN body
                      ELSE POk(WrapAbs(ps.params, body.node), body.idx)

\* AppLoop with the operands of Ast::App exchanged.
AppLoop_Swapped(tokens, l, idx) ==
  LET r == parse_atom(tokens, idx)
  IN  IF r.ok
      THEN AppLoop_Swapped(tokens, AstApp(r.node, l, over(l.at, r.node.at)), r.idx)
      ELSE POk(l, r.idx)

\* The while-let loop of parse_app: l is the accumulator.  The loop ends at
\* the first failed parse_atom, whose error is dropped and whose cursor stays.
AppLoop(tokens, l, idx) ==
  LET r == parse_atom(tokens, idx)
  IN  IF r.ok
      THEN AppLoop(tokens, AstApp(l, r.node, over(l.at, r.node.at)), r.idx)
      ELSE POk(l, r.idx)

parse_app(tokens, idx) ==
  LET l == parse_atom(tokens, idx)
  IN  IF ~l.ok THEN l ELSE AppLoop(tokens, l.node, l.idx)

parse_atom(tokens, idx) ==
  LET c == current(tokens, idx)
  IN  IF ~c.ok THEN PErr(c.err, idx)
      ELSE IF c.tk.item = "Function" THEN parse_abs(tokens, idx)
      ELSE IF c.tk.item = "LParen"
      THEN LET atom == parse_app(tokens, idx + 1)
           IN  IF ~atom.ok THEN atom
               ELSE LET close == syntax(tokens, atom.idx, "RParen")
                    IN  IF ~close.ok THEN PErr(close.err, close.idx)
                        ELSE POk(atom.node, close.idx)
      ELSE LET v == syntax(tokens, idx, "Variable")
           IN  IF ~v.ok THEN PErr(v.err, v.idx)
               ELSE POk(AstVar(c.tk.at), v.idx)

\* Parser::new(tokens).parse(): parse_app with the cursor at 0.
parse(tokens) == parse_app(tokens, 0)

(***************************************************************************)
(* Pool (pool_lambda.rs)                                                   *)
(***************************************************************************)
TermVar(k) == [tag |-> "Var", k |-> k]
TermAbs(inner) == [tag |-> "Abs", inner |-> inner]
TermApp(l, r) == [tag |-> "App", l |-> l, r |-> r]

UndeclaredVariable(at) == [kind |-> "UndeclaredVariable", at |-> at]

\* Meta::from_code: the source text under the node's span.
from_code(ast, src) == Slice(src, ast.at)

RECURSIVE FindRev(_, _, _)
\* scopes.iter().rev().enumerate().find(|(_, s)| **s == var_name), trying
\* the positions id, id + 1, ... from the top of the stack; -1 for None.
FindRev(scopes, var_name, id) ==
  IF id >= Len(scopes) THEN -1
  ELSE IF scopes[Len(scopes) - id] = var_name THEN id
  ELSE FindRev(scopes, var_name, id + 1)

RECURSIVE FindFwd(_, _, _)
FindFwd(scopes, var_name, id) ==
  IF id >= Len(scopes) THEN -1
  ELSE IF scopes[id + 1] = var_name THEN id
  ELSE FindFwd(scopes, var_name, id + 1)

\* ScopeFind without the rev(): the stack is searched from the bottom.
ScopeFind_NoRev(scopes, var_name) == FindFwd(scopes, var_name, 0)

ScopeFind(scopes, var_name) == FindRev(scopes, var_name, 0)

\* Results of compile_node: the pool and the scope stack as the call leaves
\* them, and Ok(TermIdx(idx)) or Err(err).
COk(pool, scopes) ==
  [ok |-> TRUE, pool |-> pool, scopes |-> scopes, idx |-> Len(pool) - 1,
   err |-> NoErr]
CErr(pool, scopes, err) ==
  [ok |-> FALSE, pool |-> pool, scopes |-> scopes, idx |-> -1, err |-> err]

\* The Var arm of compile_node.
CompileVar(pool, scopes, ast, src) ==
  LET var_name == from_code(ast, src)
      id == ScopeFind(scopes, var_name)
  IN  IF id >= 0
      THEN COk(Append(pool, TermVar(id)), scopes)
      ELSE CErr(pool, scopes, UndeclaredVariable(ast.at))

RECURSIVE compile_node(_, _, _, _)

\* The Abs arm of compile_node: the Abs term is pushed before its body is
\* lowered and patched afterwards.
CompileAbs(pool, scopes, ast, src) ==
  LET term_idx == Len(pool)
      pushed == Append(pool, TermAbs(0))
      var_name == Slice(src, ast.v)
      body == compile_node(pushed, Append(scopes, var_name), ast.inner, src)
  IN  IF ~body.ok THEN body
      ELSE COk([body.pool EXCEPT ![term_idx + 1] = TermAbs(body.idx)],
               SubSeq(body.scopes, 1, Len(body.scopes) - 1))

\* CompileApp lowering the right operand before the left one.
CompileApp_RightFirst(pool, scopes, ast, src) ==
  LET r == compile_node(pool, scopes, ast.r, src)
  IN  IF ~r.ok THEN r
      ELSE LET l == compile_node(r.pool, r.scopes, ast.l, src)
           IN  IF ~l.ok THEN l
               ELSE COk(Append(l.pool, TermApp(l.idx, r.idx)), l.scopes)

\* The App arm of compile_node.
CompileApp(pool, scopes, ast, src) ==
  LET l == compile_node(pool, scopes, ast.l, src)
  IN  IF ~l.ok THEN l
      ELSE LET r == compile_node(l.pool, l.scopes, ast.r, src)
           IN  IF ~r.ok THEN r
               ELSE COk(Append(r.pool, TermApp(l.idx, r.idx)), r.scopes)

compile_node(pool, scopes, ast, src) ==
  IF ast.item = "Var" THEN CompileVar(pool, scopes, ast, src)
  ELSE IF ast.item = "Abs" THEN CompileAbs(pool, scopes, ast, src)
  ELSE CompileApp(pool, scopes, ast, src)

\* Pool::compile
compile(ast, src) == compile_node(<<>>, <<>>, ast, src)

(***************************************************************************)
(* REPL inputs                                                             *)
(***************************************************************************)
\* The bytes of a lexeme.
Bytes(lx) ==
  CASE lx = "fn" -> <<"f", "n">>
    [] lx = "=>" -> <<"=", ">">>
    [] lx = "lambda" -> LambdaSign
    [] lx = "xy" -> <<"x", "y">>
    [] lx = "xx" -> <<"x", "x">>
    [] OTHER -> <<lx>>

IsWord(lx) == \A i \in 1..Len(Bytes(lx)) : Bytes(lx)[i] \in Letters

RECURSIVE Render(_, _, _)
\* The source made of the lexemes lxs, with the separator sep between any two
\* of them; when tight, only between two words, which would otherwise merge.
Render(lxs, sep, tight) ==
  IF lxs = <<>> THEN <<>>
  ELSE IF Len(lxs) = 1 THEN Bytes(lxs[1])
  ELSE Bytes(lxs[1])
         \o (IF tight /\ ~(IsWord(lxs[1]) /\ IsWord(lxs[2])) THEN <<>> ELSE <<sep>>)
         \o Render(Tail(lxs), sep, tight)

Lexemes == {"\\", ".", "(", ")", "x", "y"}

LexemeSeqs == UNION {[1..n -> Lexemes] : n \in 0..MaxToks}

\* The scenarios of the specification and other longer inputs.
Scenarios ==
  { <<"\\", "x", ".", "x">>,
    <<"\\", "x", ".", "\\", "y", ".", "x">>,
    <<"\\", "x", ".", "\\", "x", ".", "x">>,
    <<"(", "\\", "x", ".", "x", ")", "(", "\\", "x", ".", "x", ")">>,
    <<"\\", "x", "y", ".", "x", "y">>,
    <<"\\", "a", "b", "c", ".", "a", "b", "c">>,
    <<"\\", ".", "x">>,
    <<"x">>,
    <<"(", "\\", "x", ".", "x">>,
    <<"\\", "x", ".", "$", "x">>,
    <<"fn", "x", "=>", "lambda", "y", ".", "xy">>,
    <<"fn", "xx", "x", "=>", "x", "(", "xx", "x", ")">>,
    <<"\\", "x", ".", "x", "(", "\\", "y", ".", "y", "x", ")", "x">>,
    <<"\\", "x", "y", ".", "x", "\\", "(", "y", ")">>,
    <<"\\", "x", ".", "(", "\\", "y", ".", "y", ")", "y">>,
    <<"\\", "x", "=", ">", "(", "x", ")">>,
    <<"\\", "y", "x", "x", ".", "x", "y">>,
    <<"\\", "x", ".", "x", "y", "x", "y">>,
    <<"lambda", "x", "=>", "x">>,
    <<"$">> }

Sources ==
  {Render(l, " ", FALSE) : l \in LexemeSeqs}
    \cup {Render(l, " ", TRUE) : l \in Scenarios}
    \cup {Render(l, s, FALSE) : l \in Scenarios, s \in {" ", "\t"}}
    \cup { <<" ">>,
           <<"\\", "x", ".", " ", "x", " ", "(", "x", ")">>,
           <<"f", "n", " ", "x", "\t", "y", "=", ">", "\n", "y", "\f", "(", "x", " ", ")">> }

(***************************************************************************)
(* The REPL (main.rs): Repl::run reads a line and Repl::expression runs    *)
(* the lexer, the parser and the lowering pass on it.                      *)
(***************************************************************************)
VARIABLES
  input,      \* the line read
  pc,         \* "input", "lexer", "parser", "compiler", "done", "failed"
  lexer,      \* the tokens handed to the parser
  errors,     \* the lexer errors reported
  t,          \* the outcome of Parser::parse_app
  compiled    \* the outcome of Pool::compile

vars == <<input, pc, lexer, errors, t, compiled>>

NoParse == PErr(NoErr, 0)
NoPool == CErr(<<>>, <<>>, NoErr)

\* The Ok items of the lexer, as the filter_map of Repl::expression keeps them.
OkTokens(items) ==
  LET keep(it) == it.ok
      tok(it) == Token(it.item, it.at)
      kept == SelectSeq(items, keep)
  IN  [i \in 1..Len(kept) |-> tok(kept[i])]

ErrCount(items) ==
  LET bad(it) == ~it.ok IN Len(SelectSeq(items, bad))

\* Repl::expression run on the line src as a whole: the lexer errors
\* reported, the outcome of the parser and, when it is Ok, of the lowering.
expression(src) ==
  LET items == processed(src)
      p == parse(OkTokens(items))
  IN  [errors |-> ErrCount(items),
       t |-> p,
       compiled |-> IF p.ok THEN compile(p.node, src) ELSE NoPool]

Init ==
  /\ input = <<>>
  /\ pc = "input"
  /\ lexer = <<>>
  /\ errors = 0
  /\ t = NoParse
  /\ compiled = NoPool

\* Repl::run: read a non-empty line and reset the diagnostics.
Readline ==
  /\ pc = "input"
  /\ \E s \in Sources \ {<<>>} : input' = s
  /\ pc' = "lexer"
  /\ lexer' = <<>>
  /\ errors' = 0
  /\ t' = NoParse
  /\ compiled' = NoPool

\* Repl::expression, the lexer stage: collect the items, report the errors
\* and keep the tokens.
Lex ==
  /\ pc = "lexer"
  /\ lexer' = OkTokens(processed(input))
  /\ errors' = ErrCount(processed(input))
  /\ pc' = "parser"
  /\ UNCHANGED <<input, t, compiled>>

\* Repl::expression, the parser stage: Parser::new(lexer).parse_app()?
ParseOk ==
  /\ pc = "parser"
  /\ parse(lexer).ok
  /\ t' = parse(lexer)
  /\ pc' = "compiler"
  /\ UNCHANGED <<input, lexer, errors, compiled>>

ParseErr ==
  /\ pc = "parser"
  /\ ~parse(lexer).ok
  /\ t' = parse(lexer)
  /\ errors' = errors + 1
  /\ pc' = "failed"
  /\ UNCHANGED <<input, lexer, compiled>>

\* Repl::expression, the compiler stage: Pool::compile(t, input)?
CompileOk ==
  /\ pc = "compiler"
  /\ compile(t.node, input).ok
  /\ compiled' = compile(t.node, input)
  /\ pc' = "done"
  /\ UNCHANGED <<input, lexer, errors, t>>

CompileErr ==
  /\ pc = "compiler"
  /\ ~compile(t.node, input).ok
  /\ compiled' = compile(t.node, input)
  /\ errors' = errors + 1
  /\ pc' = "failed"
  /\ UNCHANGED <<input, lexer, t>>

\* Repl::run: the locals of Repl::expression are dropped, back to the prompt.
Loop ==
  /\ pc \in {"done", "failed"}
  /\ pc' = "input"
  /\ input' = <<>>
  /\ lexer' = <<>>
  /\ errors' = 0
  /\ t' = NoParse
  /\ compiled' = NoPool

Next ==
  \/ Readline
  \/ Lex
  \/ ParseOk
  \/ ParseErr
  \/ CompileOk
  \/ CompileErr
  \/ Loop

Spec == Init /\ [][Next]_vars

(***************************************************************************)
(* Properties of the lowering pass                                         *)
(***************************************************************************)
\* Pool::compile returned Ok.
Lowered == pc = "done"

\* Pool::compile returned Err.
LowerFailed == pc = "failed" /\ t.ok

\* The pool positions (0-based) a term refers to.
Refs(term) ==
  IF term.tag = "App" THEN {term.l, term.r}
  ELSE IF term.tag = "Abs" THEN {term.inner}
  ELSE {}

TopologicallyOrdered(pool) ==
  \A i \in 1..Len(pool) : \A j \in Refs(pool[i]) : j < i - 1

\* C1: whenever Pool::compile returns Ok, every App(l, r) at position i has
\* l < i and r < i, every Abs{inner} at position i has inner < i, and the
\* last element of the pool is the term of the root of the AST.
C1_TopologicalOrder ==
  Lowered =>
    /\ TopologicallyOrdered(compiled.pool)
    /\ compiled.pool[Len(compiled.pool)].tag = t.node.item

RECURSIVE PostOrder(_, _)
\* The references of the pool the claim C2 describes for the AST ast, lowered
\* from position base on: the terms of the children, then the node's own
\* term, holding the positions of its children's own terms.  Var terms are
\* left without their index.
PostOrder(ast, base) ==
  IF ast.item = "Var" THEN <<[tag |-> "Var"]>>
  ELSE IF ast.item = "Abs"
  THEN LET b == PostOrder(ast.inner, base)
       IN  b \o <<TermAbs(base + Len(b) - 1)>>
  ELSE LET l == PostOrder(ast.l, base)
           r == PostOrder(ast.r, base + Len(l))
       IN  l \o r \o <<TermApp(base + Len(l) - 1, base + Len(l) + Len(r) - 1)>>

\* A pool without the indices of its Var terms.
PoolRefs(pool) ==
  [i \in 1..Len(pool) |->
     IF pool[i].tag = "Var" THEN [tag |-> "Var"] ELSE pool[i]]

\* C2: compile_node appends the term of a node after the terms of all its
\* children and returns the position of the node's own term: in the final
\* pool every App holds the positions of the terms of its two children and
\* every Abs the position of the term of its body.
C2_OwnTermAfterChildren ==
  Lowered => PoolRefs(compiled.pool) = PostOrder(t.node, 0)

RECURSIVE ClosedAt(_, _, _, _)
\* Every Var(k) reached from position i (0-based) under d Abs terms has
\* k below the number of Abs terms on its path; fuel bounds the descent.
ClosedAt(pool, i, d, fuel) ==
  IF fuel = 0 \/ i < 0 \/ i >= Len(pool) THEN FALSE
  ELSE LET term == pool[i + 1]
       IN  IF term.tag = "Var" THEN term.k < d
           ELSE IF term.tag = "Abs"
           THEN ClosedAt(pool, term.inner, d + 1, fuel - 1)
           ELSE /\ ClosedAt(pool, term.l, d, fuel - 1)
                /\ ClosedAt(pool, term.r, d, fuel - 1)

\* C3: in every pool Pool::compile returns, each Var(k) has k < d, d being
\* the number of Abs terms on the path from the last element of the pool to
\* that Var.
C3_Closedness ==
  Lowered =>
    ClosedAt(compiled.pool, Len(compiled.pool) - 1, 0, Len(compiled.pool))

\* The distance from the top of the binder list (innermost last) to the
\* innermost binder named name; -1 when there is none.
BinderDistance(binders, name) ==
  LET hits == {k \in 0..(Len(binders) - 1) : binders[Len(binders) - k] = name}
  IN  IF hits = {} THEN -1
      ELSE CHOOSE k \in hits : \A h \in hits : k <= h

RECURSIVE ExpectedIndices(_, _, _)
\* The binder distances of the Var nodes of ast, in source order, under the
\* binders enclosing ast.
ExpectedIndices(ast, binders, src) ==
  IF ast.item = "Var" THEN <<BinderDistance(binders, Slice(src, ast.at))>>
  ELSE IF ast.item = "Abs"
  THEN ExpectedIndices(ast.inner, Append(binders, Slice(src, ast.v)), src)
  ELSE ExpectedIndices(ast.l, binders, src) \o ExpectedIndices(ast.r, binders, src)

\* The indices of the Var terms of a pool, in pool order.
VarIndices(pool) ==
  LET isVar(term) == term.tag = "Var"
      vs == SelectSeq(pool, isVar)
  IN  [i \in 1..Len(vs) |-> vs[i].k]

\* C4: the de Bruijn index emitted for a Var node is the 0-based distance
\* from the top of the scope stack to the innermost enclosing binder whose
\* name equals the text of the variable; an inner binder shadows an outer one
\* of the same name.
C4_DeBruijnIndex ==
  Lowered => VarIndices(compiled.pool) = ExpectedIndices(t.node, <<>>, input)

RECURSIVE HasShadowedUse(_, _, _)
\* Some Var node of ast is named as two or more of its enclosing binders.
HasShadowedUse(ast, binders, src) ==
  IF ast.item = "Var"
  THEN Cardinality({i \in 1..Len(binders) : binders[i] = Slice(src, ast.at)}) > 1
  ELSE IF ast.item = "Abs"
  THEN HasShadowedUse(ast.inner, Append(binders, Slice(src, ast.v)), src)
  ELSE HasShadowedUse(ast.l, binders, src) \/ HasShadowedUse(ast.r, binders, src)

\* A lowered term with a shadowed use and a use of a binder that is not the
\* innermost one.
C4_Witness ==
  /\ Lowered
  /\ HasShadowedUse(t.node, <<>>, input)
  /\ \E i \in 1..Len(compiled.pool) :
       compiled.pool[i].tag = "Var" /\ compiled.pool[i].k > 0

RECURSIVE FreeVars(_, _, _)
\* The spans of the Var nodes of ast whose text matches no enclosing binder.
FreeVars(ast, binders, src) ==
  IF ast.item = "Var"
  THEN IF Slice(src, ast.at) \in binders THEN {} ELSE {ast.at}
  ELSE IF ast.item = "Abs"
  THEN FreeVars(ast.inner, binders \cup {Slice(src, ast.v)}, src)
  ELSE FreeVars(ast.l, binders, src) \cup FreeVars(ast.r, binders, src)

RECURSIVE VarSpans(_)
\* The spans of all Var nodes of ast.
VarSpans(ast) ==
  IF ast.item = "Var" THEN {ast.at}
  ELSE IF ast.item = "Abs" THEN VarSpans(ast.inner)
  ELSE VarSpans(ast.l) \cup VarSpans(ast.r)

\* C5: Pool::compile fails exactly when the AST holds a Var matching no
\* enclosing Abs parameter; the error is UndeclaredVariable, `at` is the span
\* of the first such Var in source order, and only the Vars before it were
\* lowered.
C5_UndeclaredVariable ==
  (Lowered \/ LowerFailed) =>
    LET free == FreeVars(t.node, {}, input)
    IN  /\ compiled.ok <=> free = {}
        /\ ~compiled.ok =>
             /\ compiled.err.kind = "UndeclaredVariable"
             /\ compiled.err.at \in free
             /\ \A f \in free : compiled.err.at.offset <= f.offset
             /\ Len(VarIndices(compiled.pool)) =
                  Cardinality({v \in VarSpans(t.node) :
                                 v.offset < compiled.err.at.offset})
        /\ input = <<"x">> =>
             compiled.err = UndeclaredVariable(SourceSpan(0, 1))

\* Lowering failed at a free variable that is neither the first Var nor the
\* only free one.
C5_Witness ==
  /\ LowerFailed
  /\ Cardinality(FreeVars(t.node, {}, input)) > 1
  /\ Len(VarIndices(compiled.pool)) > 0

(***************************************************************************)
(* Properties of the parser                                                *)
(***************************************************************************)
\* Parser::parse_app has returned.
ParseDone == pc \in {"compiler", "done", "failed"}

\* Parser::parse_app returned Err.
ParseFailed == pc = "failed" /\ ~t.ok

Kinds(tokens) == [i \in 1..Len(tokens) |-> tokens[i].item]

RECURSIVE OpenGroups(_, _, _)
\* The number of LParen tokens of tokens[i..] left without their RParen, depth
\* of them being open before i.
OpenGroups(tokens, i, depth) ==
  IF i > Len(tokens) THEN depth
  ELSE IF tokens[i].item = "LParen" THEN OpenGroups(tokens, i + 1, depth + 1)
  ELSE IF tokens[i].item = "RParen" /\ depth > 0
  THEN OpenGroups(tokens, i + 1, depth - 1)
  ELSE OpenGroups(tokens, i + 1, depth)

\* C6: a parenthesized group must be closed by an RParen wherever it occurs,
\* and an error raised after tokens of an atom were consumed is never turned
\* into a successful parse: when the parse succeeds, every LParen among the
\* tokens the parser consumed has its RParen among them.
C6_GroupMustClose ==
  (ParseDone /\ t.ok) => OpenGroups(SubSeq(lexer, 1, t.idx), 1, 0) = 0

\* C7: an UnexpectedEof error is raised exactly when the failing cursor is at
\* the end of the token vector, and its `at` is the span of the last token of
\* the vector, or (0,0) for an empty vector; an empty vector gives
\* UnexpectedEof{at: (0,0)} and the tokens of `(\ x . x` give UnexpectedEof
\* at the final x.
C7_UnexpectedEofSpan ==
  /\ ParseFailed =>
       /\ t.err.kind = "UnexpectedEof" <=> t.idx >= Len(lexer)
       /\ t.err.kind = "UnexpectedEof" =>
            t.err.at = (IF lexer = <<>> THEN SourceSpan(0, 0)
                        ELSE lexer[Len(lexer)].at)
  /\ (ParseDone /\ lexer = <<>>) =>
       ParseFailed /\ t.err = UnexpectedEof(SourceSpan(0, 0))
  /\ (ParseDone /\ Kinds(lexer) =
        <<"LParen", "Function", "Variable", "Abstraction", "Variable">>) =>
       ParseFailed /\ t.err = UnexpectedEof(lexer[5].at)

\* The parser ran out of tokens inside a group: the last token is not the
\* first one.
C7_Witness ==
  /\ ParseFailed
  /\ t.err.kind = "UnexpectedEof"
  /\ Len(lexer) > 1
  /\ lexer[1].item = "LParen"

RECURSIVE MatchClose(_, _, _)
\* The position of the RParen closing the innermost of the depth groups open
\* before position i, or 0.
MatchClose(tokens, i, depth) ==
  IF i > Len(tokens) THEN 0
  ELSE IF tokens[i].item = "LParen" THEN MatchClose(tokens, i + 1, depth + 1)
  ELSE IF tokens[i].item = "RParen"
  THEN IF depth = 1 THEN i ELSE MatchClose(tokens, i + 1, depth - 1)
  ELSE MatchClose(tokens, i + 1, depth)

RECURSIVE LevelEnd(_, _, _)
\* The last position of the nesting level position i is in: the one before
\* the RParen that closes the level, or the last token.
LevelEnd(tokens, i, depth) ==
  IF i > Len(tokens) THEN Len(tokens)
  ELSE IF tokens[i].item = "LParen" THEN LevelEnd(tokens, i + 1, depth + 1)
  ELSE IF tokens[i].item = "RParen"
  THEN IF depth = 0 THEN i - 1 ELSE LevelEnd(tokens, i + 1, depth - 1)
  ELSE LevelEnd(tokens, i + 1, depth)

\* The last position of the atom starting at position i, or 0: a Variable is
\* an atom, a group runs to its RParen and an abstraction to the end of its
\* nesting level.
AtomEnd(tokens, i) ==
  IF tokens[i].item = "Variable" THEN i
  ELSE IF tokens[i].item = "LParen" THEN MatchClose(tokens, i + 1, 1)
  ELSE IF tokens[i].item = "Function" THEN LevelEnd(tokens, i + 1, 0)
  ELSE 0

RECURSIVE SplitAtoms(_, _)
\* tokens[i..] cut into atoms [lo, hi]; an entry with lo = 0 ends the
\* sequence where no atom starts.
SplitAtoms(tokens, i) ==
  IF i > Len(tokens) THEN <<>>
  ELSE LET e == AtomEnd(tokens, i)
       IN  IF e < i THEN <<[lo |-> 0, hi |-> 0]>>
           ELSE <<[lo |-> i, hi |-> e]>> \o SplitAtoms(tokens, e + 1)

\* The token vector is a sequence of n >= 1 atoms, each of which Parser::parse
\* accepts on its own, consuming it whole.
IsAtomSequence(tokens, atoms) ==
  /\ Len(atoms) >= 1
  /\ \A k \in 1..Len(atoms) :
       /\ atoms[k].lo > 0
       /\ LET alone == parse(SubSeq(tokens, atoms[k].lo, atoms[k].hi))
          IN  alone.ok /\ alone.idx = atoms[k].hi - atoms[k].lo + 1

RECURSIVE LeftSpine(_, _)
\* App(...App(App(a1, a2), a3)..., an) over the first n of nodes, each App
\* spanning from the start of a1 to the end of its right operand.
LeftSpine(nodes, n) ==
  IF n = 1 THEN nodes[1]
  ELSE LET r == nodes[n]
           from == nodes[1].at.offset
       IN  AstApp(LeftSpine(nodes, n - 1), r,
                  SourceSpan(from, r.at.offset + r.at.len - from))

\* C8: a sequence of n >= 1 atoms a1 ... an at the same nesting level parses
\* to the left-leaning spine App(...App(App(a1, a2), a3)..., an), each App
\* spanning from the start of a1 to the end of its right operand.
C8_LeftAssociative ==
  ParseDone =>
    LET atoms == SplitAtoms(lexer, 1)
        nodes == [k \in 1..Len(atoms) |->
                    parse(SubSeq(lexer, atoms[k].lo, atoms[k].hi)).node]
    IN  IsAtomSequence(lexer, atoms) =>
          /\ t.ok
          /\ t.idx = Len(lexer)
          /\ t.node = LeftSpine(nodes, Len(atoms))

\* Three or more atoms were parsed, one of them a group or an abstraction.
C8_Witness ==
  /\ ParseDone
  /\ t.ok
  /\ LET atoms == SplitAtoms(lexer, 1)
     IN  /\ IsAtomSequence(lexer, atoms)
         /\ Len(atoms) >= 3
         /\ \E k \in 1..Len(atoms) : atoms[k].hi > atoms[k].lo

(***************************************************************************)
(* The grammar of section 4.3, over token kinds k[i..j]                    *)
(*   app := atom atom*;  atom := abs | '(' app ')' | VAR;                  *)
(*   abs := FN VAR+ ABS app                                                *)
(***************************************************************************)
RECURSIVE IsApp(_, _, _), IsAtom(_, _, _), IsAbs(_, _, _)

IsApp(k, i, j) ==
  /\ i <= j
  /\ \E m \in i..j : IsAtom(k, i, m) /\ (m = j \/ IsApp(k, m + 1, j))

IsAtom(k, i, j) ==
  /\ i <= j
  /\ \/ i = j /\ k[i] = "Variable"
     \/ k[i] = "LParen" /\ k[j] = "RParen" /\ IsApp(k, i + 1, j - 1)
     \/ IsAbs(k, i, j)

IsAbs(k, i, j) ==
  /\ i <= j
  /\ k[i] = "Function"
  /\ \E d \in (i + 2)..(j - 1) :
       /\ k[d] = "Abstraction"
       /\ \A m \in (i + 1)..(d - 1) : k[m] = "Variable"
       /\ IsApp(k, d + 1, j)

(***************************************************************************)
(* Abstraction sugar                                                       *)
(***************************************************************************)
\* The number of Variable tokens that follow the first token.
ParamCount(tokens) ==
  LET stops == {i \in 2..Len(tokens) : tokens[i].item # "Variable"}
  IN  IF stops = {} THEN Len(tokens) - 1
      ELSE (CHOOSE i \in stops : \A h \in stops : i <= h) - 2

\* tokens is `FN x1 ... xn ABS body` with n >= 2 and body an app of the
\* grammar.
IsSugared(tokens) ==
  /\ Len(tokens) >= 5
  /\ tokens[1].item = "Function"
  /\ LET n == ParamCount(tokens)
     IN  /\ n >= 2
         /\ n + 2 <= Len(tokens)
         /\ tokens[n + 2].item = "Abstraction"
         /\ IsApp(Kinds(tokens), n + 3, Len(tokens))

RECURSIVE Join(_, _)
\* The texts, a separator between any two of them.
Join(texts, sep) ==
  IF texts = <<>> THEN <<>>
  ELSE IF Len(texts) = 1 THEN texts[1]
  ELSE texts[1] \o <<sep>> \o Join(Tail(texts), sep)

\* The source `FN x1 ABS FN x2 ABS ... FN xn ABS body` for the sugared source
\* src with the tokens tokens.
Curried(src, tokens) ==
  LET n == ParamCount(tokens)
      text(i) == Slice(src, tokens[i].at)
      binder(i) == <<text(1), text(i + 1), text(n + 2)>>
      RECURSIVE Binders(_)
      Binders(i) == IF i > n THEN <<>> ELSE binder(i) \o Binders(i + 1)
      body == [i \in 1..(Len(tokens) - n - 2) |-> text(n + 2 + i)]
  IN  Join(Binders(1) \o body, " ")

RECURSIVE Shape(_, _)
\* An AST without its spans, the names read from the source.
Shape(ast, src) ==
  IF ast.item = "Var" THEN [item |-> "Var", name |-> Slice(src, ast.at)]
  ELSE IF ast.item = "Abs"
  THEN [item |-> "Abs", name |-> Slice(src, ast.v),
        inner |-> Shape(ast.inner, src)]
  ELSE [item |-> "App", l |-> Shape(ast.l, src), r |-> Shape(ast.r, src)]

RECURSIVE IsAbsChain(_, _)
\* ast is Abs(x1, Abs(x2, ... Abs(xn, body))), the x's being the parameters
\* at the spans params, each Abs spanning from its parameter to the end of
\* its body.
IsAbsChain(ast, params) ==
  IF params = <<>> THEN TRUE
  ELSE /\ ast.item = "Abs"
       /\ ast.v = Head(params)
       /\ ast.at.offset = ast.v.offset
       /\ ast.at.offset + ast.at.len = ast.inner.at.offset + ast.inner.at.len
       /\ IsAbsChain(ast.inner, Tail(params))

\* What Repl::expression shows of a lowering: the pool, or the error kind.
Lowering(c) == IF c.ok THEN [ok |-> TRUE, pool |-> c.pool]
               ELSE [ok |-> FALSE, kind |-> c.err.kind]

\* C9: `\ x1 ... xn . body` and `\ x1 . \ x2 . ... \ xn . body` parse to ASTs
\* of the same shape Abs(x1, Abs(x2, ... Abs(xn, body))), each Abs spanning
\* from its parameter to the end of the body, and lower to identical pools.
C9_AbstractionSugar ==
  (ParseDone /\ IsSugared(lexer)) =>
    LET n == ParamCount(lexer)
        src == Curried(input, lexer)
        toks == OkTokens(processed(src))
        cur == expression(src)
    IN  /\ t.ok /\ cur.t.ok
        /\ IsAbsChain(t.node, [i \in 1..n |-> lexer[i + 1].at])
        /\ IsAbsChain(cur.t.node, [i \in 1..n |-> toks[3 * i - 1].at])
        /\ Shape(t.node, input) = Shape(cur.t.node, src)
        /\ pc \in {"done", "failed"} =>
             Lowering(compiled) = Lowering(cur.compiled)

\* A sugared abstraction over two different parameters was lowered.
C9_Witness ==
  /\ Lowered
  /\ IsSugared(lexer)
  /\ Slice(input, lexer[2].at) # Slice(input, lexer[3].at)
  /\ Len(compiled.pool) > 3

(***************************************************************************)
(* Whitespace between tokens                                               *)
(***************************************************************************)
\* What a run of Repl::expression shows: whether the lexer reported errors,
\* and the pool or the kind of the failure.
Outcome(lexErrors, parsed, lowered) ==
  [lexer |-> lexErrors > 0,
   parser |-> IF parsed.ok THEN "Ok" ELSE parsed.err.kind,
   pool |-> IF parsed.ok THEN Lowering(lowered) ELSE [ok |-> FALSE, kind |-> "None"]]

\* The outcome of the run the state holds, once it has ended.
StateOutcome ==
  Outcome(IF pc = "failed" THEN errors - 1 ELSE errors, t, compiled)

\* The outcome of a run on the line src.
OutcomeOf(src) ==
  LET e == expression(src) IN Outcome(e.errors, e.t, e.compiled)

\* src with the byte w inserted after its first p bytes.
InsertAt(src, p, w) == SubSeq(src, 1, p) \o <<w>> \o SubSeq(src, p + 1, Len(src))

\* src without its q-th byte.
RemoveAt(src, q) == SubSeq(src, 1, q - 1) \o SubSeq(src, q + 1, Len(src))

\* The offsets bounding the gap between the tokens i and i + 1: the end of
\* the one and the start of the other.
GapFrom(tokens, i) == tokens[i].at.offset + tokens[i].at.len
GapTo(tokens, i) == tokens[i + 1].at.offset

\* The token is a run of letters: a Variable or the keyword fn.
IsWordToken(src, tok) ==
  \A b \in 1..tok.at.len : src[tok.at.offset + b] \in Letters

\* The gap between the tokens i and i + 1 holds whitespace only.
IsBlankGap(src, tokens, i) ==
  \A q \in (GapFrom(tokens, i) + 1)..GapTo(tokens, i) : src[q] \in Whitespace

\* The tokens i and i + 1 are adjacent in the source: nothing but whitespace
\* separates them.
Adjacent(i) == IsBlankGap(input, lexer, i)

\* Inserting a whitespace byte anywhere between the tokens i and i + 1 leaves
\* the outcome unchanged.
InsertionKeeps(i) ==
  \A p \in GapFrom(lexer, i)..GapTo(lexer, i) :
    \A w \in Whitespace :
      OutcomeOf(InsertAt(input, p, w)) = StateOutcome

\* Removing a whitespace byte between the tokens i and i + 1 leaves the
\* outcome unchanged.
RemovalKeeps(i) ==
  \A q \in (GapFrom(lexer, i) + 1)..GapTo(lexer, i) :
    OutcomeOf(RemoveAt(input, q)) = StateOutcome

\* C10 as stated: inserting or removing whitespace between two adjacent
\* tokens of a source leaves the result of lex -> parse -> lower unchanged:
\* the same pool, or the same kind of failure.
C10_WhitespaceAnywhere ==
  pc \in {"done", "failed"} =>
    \A i \in 1..(Len(lexer) - 1) :
      Adjacent(i) => InsertionKeeps(i) /\ RemovalKeeps(i)

\* C10 amended: inserting whitespace between two adjacent tokens leaves the
\* result unchanged, and so does removing whitespace between two adjacent
\* tokens unless both are runs of letters (Variable or fn).
C10_WhitespaceBetweenTokens ==
  pc \in {"done", "failed"} =>
    \A i \in 1..(Len(lexer) - 1) :
      Adjacent(i) =>
        /\ InsertionKeeps(i)
        /\ ~(IsWordToken(input, lexer[i]) /\ IsWordToken(input, lexer[i + 1]))
             => RemovalKeeps(i)

\* A lowered source with whitespace to remove between a word and a token
\* that is not one, and a gap without whitespace to insert into.
C10_Witness ==
  /\ Lowered
  /\ \E i \in 1..(Len(lexer) - 1) :
       /\ GapTo(lexer, i) > GapFrom(lexer, i)
       /\ IsBlankGap(input, lexer, i)
       /\ IsWordToken(input, lexer[i]) /\ ~IsWordToken(input, lexer[i + 1])
  /\ \E i \in 1..(Len(lexer) - 1) : GapTo(lexer, i) = GapFrom(lexer, i)

(***************************************************************************)
(* Acceptance                                                              *)
(***************************************************************************)
RECURSIVE ParamSpans(_)
\* The parameter spans of all Abs nodes of ast.
ParamSpans(ast) ==
  IF ast.item = "Var" THEN {}
  ELSE IF ast.item = "Abs" THEN {ast.v} \cup ParamSpans(ast.inner)
  ELSE ParamSpans(ast.l) \cup ParamSpans(ast.r)

\* C11: whenever Parser::parse returns Ok(ast), the cursor has consumed the
\* whole token vector, the token sequence is a sentence of the grammar
\* app := atom atom*; atom := abs | '(' app ')' | VAR; abs := FN VAR+ ABS app,
\* and ast holds every Variable token of it, as a Var or as a parameter: no
\* input with leftover tokens and no input in which a later atom attempt
\* failed after consuming tokens is accepted.
C11_AcceptsOnlySentences ==
  (ParseDone /\ t.ok) =>
    /\ t.idx = Len(lexer)
    /\ IsApp(Kinds(lexer), 1, Len(lexer))
    /\ VarSpans(t.node) \cup ParamSpans(t.node) =
         {lexer[i].at : i \in {j \in 1..Len(lexer) : lexer[j].item = "Variable"}}

====
